---- MODULE Spec2Model ----
(***************************************************************************)
(* Model of the PC-Connect controller backend (backend-api/app).           *)
(*                                                                         *)
(* The relational store (users, vm_assignments, audit_logs), the identity  *)
(* provider (GoTrue) and the hypervisor (Proxmox) are the shared state.    *)
(* Every HTTP request is a flow that runs in a request slot; a flow takes  *)
(* one step per await on the store or on an external service, so flows     *)
(* interleave exactly where the handlers can be suspended.                 *)
(***************************************************************************)
EXTENDS Integers, Sequences, FiniteSets, TLC

\* ------------------------------------------------------------------ bounds
MaxRequests == 2     \* requests begun in one behaviour
MaxLen == 4          \* longest vm_ids list handed to get_all_vms (SpecBatch)
Reqs == {1, 2}       \* request slots: the requests in flight at the same time

\* --------------------------------------------------------------- constants
DefaultVMIds == <<106, 103, 101, 102>>
\* VM 100 stands for a VM of the cluster outside the default list
AllVMs == {106, 103, 101, 102, 100}
ReqVMs == {101, 100}           \* VM ids that requests name
VolatileVMs == {101}           \* VMs started, stopped and removed by others
VMStates == {"running", "stopped", "absent"}

\* identities the provider can hold: subject id and email never change
Identities == {[id |-> "a", email |-> "a@x"],
               [id |-> "u", email |-> "u@x"],
               [id |-> "n", email |-> "n@x"]}
Ids == {i.id : i \in Identities}
EmailOf(id) == (CHOOSE i \in Identities : i.id = id).email
NULL == "NULL"

VARIABLES
    users,        \* table users: rows [id, email, is_admin]
    assignments,  \* table vm_assignments: rows [id, user_id, vm_id]
    nextAssignId, \* autoincrement of vm_assignments.id
    audit,        \* table audit_logs, in insertion order
    provider,     \* identities registered at the identity provider
    provisioned,  \* history: ids that have logged in or been created so far
    hv,           \* state of every VM at the hypervisor, as last settled
    nreq,         \* number of requests begun so far
    req,          \* request slots
    bIds, bOut    \* input and result of a batch listing (SpecBatch)

vars == <<users, assignments, nextAssignId, audit, provider, provisioned, hv,
          nreq, req, bIds, bOut>>
store == <<users, assignments, nextAssignId, audit>>

NoUser == [id |-> "-", email |-> "-", is_admin |-> FALSE]
NoRes == [success |-> FALSE, message |-> "-", status |-> "-"]
NoStats == [total_users |-> 0, total_vms |-> 0, vms_running |-> 0,
            vms_stopped |-> 0, recent_actions |-> <<>>]
NoResp == [code |-> 0, detail |-> "-", success |-> FALSE, status |-> "-", vms |-> <<>>,
           users |-> {}, assignments |-> <<>>, stats |-> NoStats]
IdleReq == [op |-> "none", pc |-> "idle", tok |-> "-", cur |-> NoUser,
            uid |-> "-", vm |-> 0, adm |-> FALSE, aid |-> 0, decision |-> "none",
            seen |-> "-", res |-> NoRes, posted |-> FALSE, exc |-> "-",
            recorded |-> <<>>, listing |-> <<>>, rows |-> <<>>, out |-> <<>>,
            count |-> 0, resp |-> NoResp]
NoBatch == [done |-> FALSE, vms |-> <<>>]

\* ------------------------------------------------------------ store lookups
UserById(id) == {u \in users : u.id = id}
AssignmentsOf(uid) == {a \in assignments : a.user_id = uid}
AssignmentFor(uid, vm) == {a \in assignments : a.user_id = uid /\ a.vm_id = vm}

\* responses
Err(code, detail) == [NoResp EXCEPT !.code = code, !.detail = detail]
Ok == [NoResp EXCEPT !.code = 200, !.detail = "ok"]

\* ---------------------------------------------------------------- hypervisor
\* The hypervisor is not controlled by this system alone: a VM of VolatileVMs
\* is in any state when a query reaches the hypervisor, the other VMs are in
\* the state hv holds. Live is the set of states a query can meet.
Live == {h \in [AllVMs -> VMStates] : \A vm \in AllVMs \ VolatileVMs : h[vm] = hv[vm]}

\* ProxmoxClient.get_vm_status: raises when the hypervisor does not answer for
\* the id, otherwise reports the live state.
StatusRaises(h, vm) == h[vm] = "absent"
get_vm_status(h, vm) == [vm_id |-> vm, status |-> h[vm], error |-> "-"]

\* ProxmoxClient.get_all_vms: one status query per id, in order; a failing id
\* is appended with status unknown and the error string.
RECURSIVE get_all_vms_from(_, _, _, _)
get_all_vms_from(h, vm_ids, i, vms) ==
    IF i > Len(vm_ids) THEN vms
    ELSE LET vm_id == vm_ids[i] IN
         IF StatusRaises(h, vm_id)
         THEN get_all_vms_from(h, vm_ids, i + 1,
                  Append(vms, [vm_id |-> vm_id, status |-> "unknown",
                               error |-> "Failed to get VM status"]))
         ELSE get_all_vms_from(h, vm_ids, i + 1,
                  Append(vms, get_vm_status(h, vm_id)))
\* the loop leaving out the ids whose status query fails
get_all_vms_skip_failed(h, vm_ids) ==
    SelectSeq(get_all_vms_from(h, vm_ids, 1, <<>>), LAMBDA vm : vm.status # "unknown")
get_all_vms(h, vm_ids) == get_all_vms_from(h, vm_ids, 1, <<>>)

\* ------------------------------------------------------------ access control
\* the permission check without the vm_id condition of the query
authorize_any_vm(user, vm) == user.is_admin \/ AssignmentsOf(user.id) # {}
\* the permission check letting every user through
authorize_unchecked(user, vm) == TRUE
\* the permission check of get_vm_status and start_vm
authorize(user, vm) == user.is_admin \/ AssignmentFor(user.id, vm) # {}

\* ---------------------------------------------------------------- the store
\* the insert without the constraint unique_user_vm_assignment
AssignmentInsertOk_no_unique(uid) == UserById(uid) # {}
\* INSERT INTO vm_assignments: unique_user_vm_assignment and the foreign key
\* to users.id are checked by the store at commit.
AssignmentInsertOk(uid) == AssignmentsOf(uid) = {} /\ UserById(uid) # {}
\* INSERT INTO audit_logs: user_id references users.id
AuditInsertOk(uid) == UserById(uid) # {}
\* INSERT INTO users: primary key id, unique email
UserInsertOk(id, email) == \A u \in users : u.id # id /\ u.email # email
\* the DELETE with its condition inverted
UsersAfterUserDelete_others(uid) == UserById(uid)
\* DELETE FROM users WHERE id = uid
UsersAfterUserDelete(uid) == users \ UserById(uid)
\* DELETE FROM users: vm_assignments rows cascade, audit_logs.user_id is nulled
AssignmentsAfterUserDelete(uid) == {a \in assignments : a.user_id # uid}
\* the delete of a user wiping the user's email from the audit rows as well
AuditAfterUserDelete_anonymised(uid) ==
    [i \in 1..Len(audit) |->
        IF audit[i].user_id = uid
        THEN [audit[i] EXCEPT !.user_id = NULL, !.user_email = "deleted"]
        ELSE audit[i]]
\* audit_logs.user_id declared ondelete CASCADE instead of SET NULL
AuditAfterUserDelete_cascade(uid) ==
    SelectSeq(audit, LAMBDA row : row.user_id # uid)
AuditAfterUserDelete(uid) ==
    [i \in 1..Len(audit) |->
        IF audit[i].user_id = uid THEN [audit[i] EXCEPT !.user_id = NULL]
        ELSE audit[i]]

\* ------------------------------------------------------------------- Init
HvInit == [vm \in AllVMs |->
             CASE vm = 101 -> "stopped"
               [] vm = 100 -> "running"
               [] vm = 103 -> "absent"
               [] vm = 102 -> "running"
               [] OTHER -> "stopped"]
AdminRow == [id |-> "a", email |-> "a@x", is_admin |-> TRUE]
UserRow == [id |-> "u", email |-> "u@x", is_admin |-> FALSE]

\* The store after deployment: the seeded admin, possibly a user who has
\* logged in before, possibly with a VM assigned by the admin.
InitStore ==
    /\ users \in {{AdminRow}, {AdminRow, UserRow}}
    /\ assignments \in {{}} \cup
          (IF UserRow \in users
           THEN {{[id |-> 1, user_id |-> "u", vm_id |-> 101]}} ELSE {})
    /\ nextAssignId = Cardinality(assignments) + 1
    /\ audit = <<>>
    /\ provider = {i \in Identities : i.id \in {"a", "u"}}
    /\ provisioned = {u.id : u \in users}

Init ==
    /\ InitStore
    /\ hv = HvInit
    /\ nreq = 0
    /\ req = [r \in Reqs |-> IdleReq]
    /\ bIds = <<>>
    /\ bOut = NoBatch

\* ------------------------------------------------------- beginning a request
\* a step of request r that changes only the request
Local(r, fields) ==
    /\ req' = [req EXCEPT ![r] = fields]
    /\ UNCHANGED <<store, provider, provisioned, hv, nreq, bIds, bOut>>

\* A finished request keeps its token, its response and what the handler did
\* on the way: the access decision, the state the hypervisor reported, the
\* adapter's result, whether a start command was sent, and the invocations of
\* the audit recorder.
Done(q, resp) ==
    [IdleReq EXCEPT !.pc = "done", !.op = q.op, !.tok = q.tok, !.resp = resp,
                    !.decision = q.decision, !.seen = q.seen, !.res = q.res,
                    !.posted = q.posted, !.recorded = q.recorded]

\* bearer tokens that verify: one per registered identity
Tokens == {i.id : i \in provider}
AdminOps == {"create_user", "list_users", "delete_user",
             "assign", "list_assignments", "unassign", "stats"}

FirstPc(op) ==
    CASE op \in {"start", "status"} -> "authz"
      [] op = "list" -> "list_hv"
      [] op = "create_user" -> "signup"
      [] op = "list_users" -> "lu_select"
      [] op = "list_assignments" -> "la_select"
      [] op = "stats" -> "st_count"
      [] op = "delete_user" -> "du_select"
      [] op = "assign" -> "as_user"
      [] op = "unassign" -> "ua_select"

\* token resolution letting a subject without a local row through
get_current_user_unprovisioned(q) ==
    IF UserById(q.tok) = {}
    THEN [q EXCEPT !.cur = [id |-> q.tok, email |-> EmailOf(q.tok), is_admin |-> FALSE]]
    ELSE [q EXCEPT !.cur = CHOOSE u \in users : u.id = q.tok]
\* get_current_user: the token's subject must have a local row
get_current_user(q) ==
    IF UserById(q.tok) = {}
    THEN Done(q, Err(404, "User not found in database"))
    ELSE [q EXCEPT !.cur = CHOOSE u \in users : u.id = q.tok]
\* the admin dependency without the check of the admin flag
get_current_admin_user_unchecked(q) == q
\* get_current_admin_user: the resolved user must be an admin
get_current_admin_user(q) ==
    IF q.pc = "done" THEN q
    ELSE IF ~q.cur.is_admin THEN Done(q, Err(403, "Admin privileges required"))
    ELSE q

\* the dependencies of a route, run when the request arrives
Resolve(q) ==
    LET p == IF q.op \in AdminOps
             THEN get_current_admin_user(get_current_user(q))
             ELSE get_current_user(q)
    IN IF p.pc = "done" THEN p ELSE [p EXCEPT !.pc = FirstPc(p.op)]

\* a new request takes the first slot that holds no request in flight
Free(r) == req[r].pc \in {"idle", "done"}
Begin(r, fields) ==
    /\ Free(r)
    /\ \A s \in Reqs : s < r => ~Free(s)
    /\ nreq < MaxRequests
    /\ nreq' = nreq + 1
    /\ req' = [req EXCEPT ![r] = fields]
    /\ UNCHANGED <<store, provider, provisioned, hv, bIds, bOut>>

\* POST /vms/{vm_id}/start
BeginStart(r) ==
    \E tok \in Tokens, vm \in ReqVMs :
        Begin(r, Resolve([IdleReq EXCEPT !.op = "start", !.tok = tok, !.vm = vm]))
\* GET /vms/{vm_id}/status
BeginStatus(r) ==
    \E tok \in Tokens, vm \in ReqVMs :
        Begin(r, Resolve([IdleReq EXCEPT !.op = "status", !.tok = tok, !.vm = vm]))
\* GET /vms/
BeginList(r) ==
    \E tok \in Tokens :
        Begin(r, Resolve([IdleReq EXCEPT !.op = "list", !.tok = tok]))
\* POST /admin/users
BeginCreateUser(r) ==
    \E tok \in Tokens, uid \in Ids, adm \in BOOLEAN :
        Begin(r, Resolve([IdleReq EXCEPT !.op = "create_user", !.tok = tok,
                                         !.uid = uid, !.adm = adm]))
\* DELETE /admin/users/{user_id}
BeginDeleteUser(r) ==
    \E tok \in Tokens, uid \in Ids :
        Begin(r, Resolve([IdleReq EXCEPT !.op = "delete_user", !.tok = tok,
                                         !.uid = uid]))
\* POST /admin/vm-assignments
BeginAssign(r) ==
    \E tok \in Tokens, uid \in Ids, vm \in ReqVMs :
        Begin(r, Resolve([IdleReq EXCEPT !.op = "assign", !.tok = tok,
                                         !.uid = uid, !.vm = vm]))
\* GET /admin/users
BeginListUsers(r) ==
    \E tok \in Tokens :
        Begin(r, Resolve([IdleReq EXCEPT !.op = "list_users", !.tok = tok]))
\* GET /admin/vm-assignments
BeginListAssignments(r) ==
    \E tok \in Tokens :
        Begin(r, Resolve([IdleReq EXCEPT !.op = "list_assignments", !.tok = tok]))
\* GET /admin/stats
BeginStats(r) ==
    \E tok \in Tokens :
        Begin(r, Resolve([IdleReq EXCEPT !.op = "stats", !.tok = tok]))
\* DELETE /admin/vm-assignments/{assignment_id}
BeginUnassign(r) ==
    \E tok \in Tokens, aid \in {a.id : a \in assignments} \cup {0} :
        Begin(r, Resolve([IdleReq EXCEPT !.op = "unassign", !.tok = tok,
                                         !.aid = aid]))

\* the permission check writing an audit row for a denied request
AuthzCheck_audit_denied(r) ==
    /\ req[r].pc = "authz"
    /\ LET q == req[r] IN
       IF authorize(q.cur, q.vm)
       THEN Local(r, [q EXCEPT !.decision = "Allow", !.pc = "hv_status"])
       ELSE /\ audit' = Append(audit,
                   [user_id |-> q.cur.id, user_email |-> q.cur.email,
                    action |-> q.op, vm_id |-> q.vm, success |-> FALSE,
                    error_message |-> "You don't have access to this VM"])
            /\ req' = [req EXCEPT ![r] = Done([q EXCEPT !.decision = "Deny"],
                                Err(403, "You don't have access to this VM"))]
            /\ UNCHANGED <<users, assignments, nextAssignId, provider,
                           provisioned, hv, nreq, bIds, bOut>>
\* the permission check of start_vm and get_vm_status
AuthzCheck(r) ==
    /\ req[r].pc = "authz"
    /\ LET q == req[r] IN
       IF authorize(q.cur, q.vm)
       THEN Local(r, [q EXCEPT !.decision = "Allow", !.pc = "hv_status"])
       ELSE Local(r, Done([q EXCEPT !.decision = "Deny"],
                          Err(403, "You don't have access to this VM")))

\* ------------------------------------------------ GET /vms/{vm_id}/status
StatusQuery(r) ==
    /\ req[r].pc = "hv_status" /\ req[r].op = "status"
    /\ \E h \in Live :
       LET q == req[r] IN
       IF StatusRaises(h, q.vm)
       THEN Local(r, Done(q, Err(500, "Failed to get VM status")))
       ELSE Local(r, Done(q, [Ok EXCEPT !.status = get_vm_status(h, q.vm).status]))

\* ------------------------------------------------- POST /vms/{vm_id}/start
AlreadyRunning == [success |-> FALSE, message |-> "VM is already running",
                   status |-> "running"]
StartSent == [success |-> TRUE, message |-> "VM start command sent successfully",
              status |-> "starting"]

\* ProxmoxClient.start_vm, the status read: a running VM is reported without a
\* start command; a failing read raises into the handler's except branch.
StartReadStatus(r) ==
    /\ req[r].pc = "hv_status" /\ req[r].op = "start"
    /\ \E h \in Live :
       LET q == req[r] IN
       IF StatusRaises(h, q.vm)
       THEN Local(r, [q EXCEPT !.exc = "Failed to start VM", !.pc = "audit_exc"])
       ELSE LET current_status == get_vm_status(h, q.vm).status IN
            IF current_status = "running"
            THEN Local(r, [q EXCEPT !.seen = current_status,
                                    !.res = AlreadyRunning, !.pc = "audit"])
            ELSE Local(r, [q EXCEPT !.seen = current_status, !.pc = "hv_post"])

\* the start command held back while another request has sent one for the VM
StartPost_dedup(r) ==
    /\ req[r].pc = "hv_post"
    /\ \E h \in Live :
       LET q == req[r] IN
       IF StatusRaises(h, q.vm)
       THEN Local(r, [q EXCEPT !.exc = "Failed to start VM", !.pc = "audit_exc"])
       ELSE IF \E s \in Reqs \ {r} : req[s].posted /\ req[s].vm = q.vm
       THEN Local(r, [q EXCEPT !.res = AlreadyRunning, !.pc = "audit"])
       ELSE /\ hv' = IF q.vm \in VolatileVMs THEN hv
                     ELSE [hv EXCEPT ![q.vm] = "running"]
            /\ req' = [req EXCEPT ![r] = [q EXCEPT !.posted = TRUE,
                                                   !.res = StartSent,
                                                   !.pc = "audit"]]
            /\ UNCHANGED <<store, provider, provisioned, nreq, bIds, bOut>>
\* ProxmoxClient.start_vm, the start command: the hypervisor takes it, or
\* refuses it for a VM it does not know (any more)
StartPost(r) ==
    /\ req[r].pc = "hv_post"
    /\ \E h \in Live :
       LET q == req[r] IN
       IF StatusRaises(h, q.vm)
       THEN Local(r, [q EXCEPT !.exc = "Failed to start VM", !.pc = "audit_exc"])
       ELSE /\ hv' = IF q.vm \in VolatileVMs THEN hv
                     ELSE [hv EXCEPT ![q.vm] = "running"]
            /\ req' = [req EXCEPT ![r] = [q EXCEPT !.posted = TRUE,
                                                   !.res = StartSent,
                                                   !.pc = "audit"]]
            /\ UNCHANGED <<store, provider, provisioned, nreq, bIds, bOut>>

AuditRow(q, success, error_message) ==
    [user_id |-> q.cur.id, user_email |-> q.cur.email, action |-> "start",
     vm_id |-> q.vm, success |-> success, error_message |-> error_message]
Recorded(q, success, error_message, persisted) ==
    Append(q.recorded, [success |-> success, error_message |-> error_message,
                        persisted |-> persisted])

\* start_vm, the try block after the adapter has returned: add the audit row,
\* commit, answer with the adapter's result. A failing commit raises inside the
\* try block, so the except branch runs.
AuditOutcome(r) ==
    /\ req[r].pc = "audit"
    /\ LET q == req[r]
           msg == IF q.res.success THEN "None" ELSE q.res.message
       IN IF AuditInsertOk(q.cur.id)
          THEN /\ audit' = Append(audit, AuditRow(q, q.res.success, msg))
               /\ req' = [req EXCEPT ![r] =
                    Done([q EXCEPT !.recorded = Recorded(q, q.res.success, msg, TRUE)],
                         [Ok EXCEPT !.success = q.res.success,
                                    !.status = q.res.status,
                                    !.detail = q.res.message])]
               /\ UNCHANGED <<users, assignments, nextAssignId, provider, provisioned, hv, nreq, bIds, bOut>>
          ELSE Local(r, [q EXCEPT !.recorded = Recorded(q, q.res.success, msg, FALSE),
                                  !.exc = "IntegrityError",
                                  !.pc = "audit_exc"])

\* start_vm, the except branch: add an audit row with success=False and the
\* exception's message, commit, answer 500. A failing commit here is unhandled.
AuditException(r) ==
    /\ req[r].pc = "audit_exc"
    /\ LET q == req[r] IN
       IF AuditInsertOk(q.cur.id)
       THEN /\ audit' = Append(audit, AuditRow(q, FALSE, q.exc))
            /\ req' = [req EXCEPT ![r] =
                 Done([q EXCEPT !.recorded = Recorded(q, FALSE, q.exc, TRUE)],
                      Err(500, "Failed to start VM"))]
            /\ UNCHANGED <<users, assignments, nextAssignId, provider, provisioned, hv, nreq, bIds, bOut>>
       ELSE Local(r, Done([q EXCEPT !.recorded = Recorded(q, FALSE, q.exc, FALSE)],
                          Err(500, "Internal Server Error")))

\* ------------------------------------------------------------- GET /vms/
\* list_vms, the hypervisor listing
ListHv(r) ==
    /\ req[r].pc = "list_hv"
    /\ \E h \in Live :
          Local(r, [req[r] EXCEPT !.listing = get_all_vms(h, DefaultVMIds),
                                  !.pc = "list_db"])

\* next(vm for vm in all_vms if vm["vm_id"] == vm_id, None), as an index or 0
RECURSIVE FindVM(_, _, _)
FindVM(all_vms, vm_id, i) ==
    IF i > Len(all_vms) THEN 0
    ELSE IF all_vms[i].vm_id = vm_id THEN i
    ELSE FindVM(all_vms, vm_id, i + 1)

\* assignment_map.get(vm_id): the dict keeps the last row read for a vm_id
OwnerEmail(vm_id) ==
    LET rows == {a \in assignments : a.vm_id = vm_id} IN
    IF rows = {} THEN "None"
    ELSE LET last == CHOOSE a \in rows : \A b \in rows : b.id <= a.id
             owner == UserById(last.user_id)
         IN IF owner = {} THEN "None" ELSE (CHOOSE u \in owner : TRUE).email

VMEntry(vm, email) == [vm_id |-> vm.vm_id, status |-> vm.status,
                       assigned_user |-> email]

\* list_vms answering with an empty list when the assigned VM is not listed
list_vms_response_empty(q) ==
    IF q.cur.is_admin
    THEN [Ok EXCEPT !.vms = [i \in 1..Len(q.listing) |->
                                VMEntry(q.listing[i], OwnerEmail(q.listing[i].vm_id))]]
    ELSE IF AssignmentsOf(q.cur.id) = {} THEN Ok
    ELSE LET assignment == CHOOSE a \in AssignmentsOf(q.cur.id) : TRUE
             i == FindVM(q.listing, assignment.vm_id, 1)
         IN IF i = 0 THEN Ok
            ELSE [Ok EXCEPT !.vms = <<VMEntry(q.listing[i], q.cur.email)>>]

\* list_vms, the store part: an admin sees every VM with its owner; a user sees
\* the assigned VM, nothing without an assignment, and an error when the
\* assigned VM is not in the listing (the 404 is re-raised as 500 by the
\* handler's except branch).
list_vms_response(q) ==
    IF q.cur.is_admin
    THEN [Ok EXCEPT !.vms = [i \in 1..Len(q.listing) |->
                                VMEntry(q.listing[i], OwnerEmail(q.listing[i].vm_id))]]
    ELSE IF AssignmentsOf(q.cur.id) = {} THEN Ok
    ELSE LET assignment == CHOOSE a \in AssignmentsOf(q.cur.id) : TRUE
             i == FindVM(q.listing, assignment.vm_id, 1)
         IN IF i = 0
            THEN Err(500, "Failed to fetch VMs: 404: Assigned VM not found in Proxmox")
            ELSE [Ok EXCEPT !.vms = <<VMEntry(q.listing[i], q.cur.email)>>]

ListDb(r) ==
    /\ req[r].pc = "list_db"
    /\ Local(r, Done(req[r], list_vms_response(req[r])))

\* ------------------------------------------------------- POST /auth/login
\* GoTrueClient.login, then the handler up to its first store query
BeginLogin(r) ==
    \E i \in Identities, answer \in {"ok", "rejected", "unreachable"} :
        Begin(r,
          IF answer = "unreachable"
          THEN Done([IdleReq EXCEPT !.op = "login", !.uid = i.id],
                    Err(503, "Authentication service unavailable"))
          ELSE IF answer = "rejected" \/ i \notin provider
          THEN Done([IdleReq EXCEPT !.op = "login", !.uid = i.id],
                    Err(401, "Invalid credentials"))
          ELSE [IdleReq EXCEPT !.op = "login", !.uid = i.id, !.pc = "login_select"])

\* the token response of a login: the local user's id, email and admin flag
TokenResponse(user) == [Ok EXCEPT !.users = {user}]

\* login: select the local user; an identity with a row is answered from it
LoginSelect(r) ==
    /\ req[r].pc = "login_select"
    /\ LET q == req[r] IN
       IF UserById(q.uid) # {}
       THEN /\ req' = [req EXCEPT ![r] =
                   Done(q, TokenResponse(CHOOSE u \in users : u.id = q.uid))]
            /\ provisioned' = provisioned \cup {q.uid}
            /\ UNCHANGED <<store, provider, hv, nreq, bIds, bOut>>
       ELSE Local(r, [q EXCEPT !.pc = "login_insert"])

\* the row of a first login made with the admin flag set
LoginRow_admin(uid) == [id |-> uid, email |-> EmailOf(uid), is_admin |-> TRUE]
\* User(id=user_id, email=user_email, is_admin=False)
LoginRow(uid) == [id |-> uid, email |-> EmailOf(uid), is_admin |-> FALSE]

\* login: insert the local user and commit; a row the store refuses raises
\* IntegrityError, which the handler does not catch
LoginInsert(r) ==
    /\ req[r].pc = "login_insert"
    /\ LET q == req[r]
           row == LoginRow(q.uid)
       IN IF UserInsertOk(row.id, row.email)
          THEN /\ users' = users \cup {row}
               /\ provisioned' = provisioned \cup {q.uid}
               /\ req' = [req EXCEPT ![r] = Done(q, TokenResponse(row))]
               /\ UNCHANGED <<assignments, nextAssignId, audit, provider, hv, nreq, bIds, bOut>>
          ELSE Local(r, Done(q, Err(500, "Internal Server Error")))

\* ------------------------------------------------------ POST /admin/users
\* GoTrueClient.signup: the provider registers the identity of a new email
Signup(r) ==
    /\ req[r].pc = "signup"
    /\ LET q == req[r]
           i == CHOOSE i \in Identities : i.id = q.uid
       IN IF i \in provider
          THEN Local(r, Done(q, Err(400, "Signup failed")))
          ELSE /\ provider' = provider \cup {i}
               /\ req' = [req EXCEPT ![r].pc = "cu_insert"]
               /\ UNCHANGED <<store, provisioned, hv, nreq, bIds, bOut>>

\* the new row made without the requested admin flag
NewUserRow_never_admin(uid, is_admin) ==
    [id |-> uid, email |-> EmailOf(uid), is_admin |-> FALSE]
\* User(id=user_id, email=user_data.email, is_admin=user_data.is_admin)
NewUserRow(uid, is_admin) ==
    [id |-> uid, email |-> EmailOf(uid), is_admin |-> is_admin]

\* create_user: insert the local user and commit, answer with the row
CreateUserInsert(r) ==
    /\ req[r].pc = "cu_insert"
    /\ LET q == req[r]
           row == NewUserRow(q.uid, q.adm)
       IN IF UserInsertOk(row.id, row.email)
          THEN /\ users' = users \cup {row}
               /\ provisioned' = provisioned \cup {q.uid}
               /\ req' = [req EXCEPT ![r] = Done(q, [Ok EXCEPT !.users = {row}])]
               /\ UNCHANGED <<assignments, nextAssignId, audit, provider, hv, nreq, bIds, bOut>>
          ELSE Local(r, Done(q, Err(500, "Failed to create user")))

\* -------------------------------------------------------- GET /admin/users
\* list_users: every row of users, as id, email and admin flag
ListUsers(r) ==
    /\ req[r].pc = "lu_select"
    /\ Local(r, Done(req[r], [Ok EXCEPT !.users = users]))

\* ------------------------------------------- DELETE /admin/users/{user_id}
DeleteUserSelect(r) ==
    /\ req[r].pc = "du_select"
    /\ LET q == req[r] IN
       IF UserById(q.uid) = {}
       THEN Local(r, Done(q, Err(404, "User not found")))
       ELSE Local(r, [q EXCEPT !.pc = "du_delete"])

\* delete_user: delete the row and commit; the assignments of the user go with
\* it and the audit rows of the user are kept with user_id NULL. A DELETE that
\* matches no row any more changes nothing and the request still succeeds.
DeleteUserCommit(r) ==
    /\ req[r].pc = "du_delete"
    /\ LET q == req[r] IN
       IF UserById(q.uid) = {}
       THEN Local(r, Done(q, Ok))
       ELSE /\ users' = UsersAfterUserDelete(q.uid)
            /\ assignments' = AssignmentsAfterUserDelete(q.uid)
            /\ audit' = AuditAfterUserDelete(q.uid)
            /\ req' = [req EXCEPT ![r] = Done(q, Ok)]
            /\ UNCHANGED <<nextAssignId, provider, provisioned, hv, nreq, bIds, bOut>>

\* ------------------------------------------------ POST /admin/vm-assignments
AssignCheckUser(r) ==
    /\ req[r].pc = "as_user"
    /\ LET q == req[r] IN
       IF UserById(q.uid) = {}
       THEN Local(r, Done(q, Err(404, "User not found")))
       ELSE Local(r, [q EXCEPT !.pc = "as_existing"])

\* the check for an existing assignment made on the VM as well as on the user
AssignCheckExisting_by_vm(r) ==
    /\ req[r].pc = "as_existing"
    /\ LET q == req[r] IN
       IF {a \in assignments : a.user_id = q.uid \/ a.vm_id = q.vm} # {}
       THEN Local(r, Done(q, Err(400, "User already has VM assigned")))
       ELSE Local(r, [q EXCEPT !.pc = "as_vm"])
\* assign_vm_to_user: the user must not have an assignment yet
AssignCheckExisting(r) ==
    /\ req[r].pc = "as_existing"
    /\ LET q == req[r] IN
       IF AssignmentsOf(q.uid) # {}
       THEN Local(r, Done(q, Err(400, "User already has VM assigned")))
       ELSE Local(r, [q EXCEPT !.pc = "as_vm"])

\* the assignment made without asking the hypervisor for the VM
AssignCheckVM_unchecked(r) ==
    /\ req[r].pc = "as_vm"
    /\ \E h \in Live :
          Local(r, [req[r] EXCEPT !.seen = h[req[r].vm], !.pc = "as_insert"])
\* assign_vm_to_user: the VM must answer a status query
AssignCheckVM(r) ==
    /\ req[r].pc = "as_vm"
    /\ \E h \in Live :
       LET q == [req[r] EXCEPT !.seen = h[req[r].vm]] IN
       IF StatusRaises(h, q.vm)
       THEN Local(r, Done(q, Err(404, "VM not found in Proxmox")))
       ELSE Local(r, [q EXCEPT !.pc = "as_insert"])

\* assign_vm_to_user: insert the row and commit; a row the store refuses
\* raises IntegrityError, which the handler does not catch
AssignInsert(r) ==
    /\ req[r].pc = "as_insert"
    /\ LET q == req[r] IN
       IF AssignmentInsertOk(q.uid)
       THEN /\ assignments' = assignments \cup
                   {[id |-> nextAssignId, user_id |-> q.uid, vm_id |-> q.vm]}
            /\ nextAssignId' = nextAssignId + 1
            /\ req' = [req EXCEPT ![r] = Done([q EXCEPT !.aid = nextAssignId], Ok)]
            /\ UNCHANGED <<users, audit, provider, provisioned, hv, nreq, bIds, bOut>>
       ELSE /\ nextAssignId' = nextAssignId + 1
            /\ req' = [req EXCEPT ![r] = Done(q, Err(500, "Internal Server Error"))]
            /\ UNCHANGED <<users, assignments, audit, provider, provisioned, hv,
                           nreq, bIds, bOut>>

\* -------------------------------------------------- GET /admin/vm-assignments
\* the rows of a set of assignments as a list, by ascending id
RECURSIVE RowsById(_)
RowsById(rows) ==
    IF rows = {} THEN <<>>
    ELSE LET first == CHOOSE a \in rows : \A b \in rows : a.id <= b.id
         IN <<first>> \o RowsById(rows \ {first})

\* list_vm_assignments: select the assignments joined with their users
ListAssignmentsSelect(r) ==
    /\ req[r].pc = "la_select"
    /\ LET q == req[r]
           rows == RowsById({a \in assignments : UserById(a.user_id) # {}})
       IN IF rows = <<>>
          THEN Local(r, Done(q, Ok))
          ELSE Local(r, [q EXCEPT !.rows = rows, !.pc = "la_user"])

\* list_vm_assignments, one turn of the loop: select the user of the next
\* assignment (scalar_one raises when the row is gone) and append the entry
ListAssignmentsUser(r) ==
    /\ req[r].pc = "la_user"
    /\ LET q == req[r]
           assignment == q.rows[Len(q.out) + 1]
           user == UserById(assignment.user_id)
       IN IF user = {}
          THEN Local(r, Done(q, Err(500, "Internal Server Error")))
          ELSE LET out == Append(q.out, [id |-> assignment.id,
                                         user_id |-> assignment.user_id,
                                         vm_id |-> assignment.vm_id,
                                         user |-> CHOOSE u \in user : TRUE])
               IN IF Len(out) = Len(q.rows)
                  THEN Local(r, Done(q, [Ok EXCEPT !.assignments = out]))
                  ELSE Local(r, [q EXCEPT !.out = out])

\* ------------------------------------------------------- GET /admin/stats
\* get_admin_stats: count the users
StatsCount(r) ==
    /\ req[r].pc = "st_count"
    /\ Local(r, [req[r] EXCEPT !.count = Cardinality(users), !.pc = "st_hv"])

\* get_admin_stats: the hypervisor listing
StatsHv(r) ==
    /\ req[r].pc = "st_hv"
    /\ \E h \in Live :
          Local(r, [req[r] EXCEPT !.listing = get_all_vms(h, DefaultVMIds),
                                  !.pc = "st_logs"])

\* the audit rows from the newest to the oldest, RecentLimit at most
RecentLimit == 10
RecentActions ==
    LET n == IF Len(audit) < RecentLimit THEN Len(audit) ELSE RecentLimit
    IN [i \in 1..n |->
          LET log == audit[Len(audit) + 1 - i]
          IN [user_email |-> log.user_email, action |-> log.action,
              vm_id |-> log.vm_id, success |-> log.success]]

\* get_admin_stats: the recent audit rows, then the response
StatsLogs(r) ==
    /\ req[r].pc = "st_logs"
    /\ LET q == req[r]
           all_vms == q.listing
           count(st) == Cardinality({i \in 1..Len(all_vms) : all_vms[i].status = st})
       IN Local(r, Done(q, [Ok EXCEPT !.stats =
             [total_users |-> q.count, total_vms |-> Len(all_vms),
              vms_running |-> count("running"), vms_stopped |-> count("stopped"),
              recent_actions |-> RecentActions]]))

\* ------------------------------- DELETE /admin/vm-assignments/{assignment_id}
UnassignSelect(r) ==
    /\ req[r].pc = "ua_select"
    /\ LET q == req[r] IN
       IF {a \in assignments : a.id = q.aid} = {}
       THEN Local(r, Done(q, Err(404, "Assignment not found")))
       ELSE Local(r, [q EXCEPT !.pc = "ua_delete"])

UnassignCommit(r) ==
    /\ req[r].pc = "ua_delete"
    /\ LET q == req[r] IN
       IF {a \in assignments : a.id = q.aid} = {}
       THEN Local(r, Done(q, Ok))
       ELSE /\ assignments' = {a \in assignments : a.id # q.aid}
            /\ req' = [req EXCEPT ![r] = Done(q, Ok)]
            /\ UNCHANGED <<users, nextAssignId, audit, provider, provisioned, hv,
                           nreq, bIds, bOut>>

\* ------------------------------------------------------- the specification
Next ==
    \/ \E r \in Reqs : BeginStart(r)
    \/ \E r \in Reqs : BeginStatus(r)
    \/ \E r \in Reqs : BeginList(r)
    \/ \E r \in Reqs : BeginLogin(r)
    \/ \E r \in Reqs : BeginCreateUser(r)
    \/ \E r \in Reqs : BeginDeleteUser(r)
    \/ \E r \in Reqs : BeginAssign(r)
    \/ \E r \in Reqs : BeginUnassign(r)
    \/ \E r \in Reqs : BeginListUsers(r)
    \/ \E r \in Reqs : BeginListAssignments(r)
    \/ \E r \in Reqs : BeginStats(r)
    \/ \E r \in Reqs : AuthzCheck(r)
    \/ \E r \in Reqs : StatusQuery(r)
    \/ \E r \in Reqs : StartReadStatus(r)
    \/ \E r \in Reqs : StartPost(r)
    \/ \E r \in Reqs : AuditOutcome(r)
    \/ \E r \in Reqs : AuditException(r)
    \/ \E r \in Reqs : ListHv(r)
    \/ \E r \in Reqs : ListDb(r)
    \/ \E r \in Reqs : LoginSelect(r)
    \/ \E r \in Reqs : LoginInsert(r)
    \/ \E r \in Reqs : Signup(r)
    \/ \E r \in Reqs : CreateUserInsert(r)
    \/ \E r \in Reqs : DeleteUserSelect(r)
    \/ \E r \in Reqs : DeleteUserCommit(r)
    \/ \E r \in Reqs : AssignCheckUser(r)
    \/ \E r \in Reqs : AssignCheckExisting(r)
    \/ \E r \in Reqs : AssignCheckVM(r)
    \/ \E r \in Reqs : AssignInsert(r)
    \/ \E r \in Reqs : UnassignSelect(r)
    \/ \E r \in Reqs : UnassignCommit(r)
    \/ \E r \in Reqs : ListUsers(r)
    \/ \E r \in Reqs : ListAssignmentsSelect(r)
    \/ \E r \in Reqs : ListAssignmentsUser(r)
    \/ \E r \in Reqs : StatsCount(r)
    \/ \E r \in Reqs : StatsHv(r)
    \/ \E r \in Reqs : StatsLogs(r)

Spec == Init /\ [][Next]_vars

\* ------------------------------------------- batch listing on its own
\* get_all_vms applied to every list of ids of the default set, of length up
\* to MaxLen, under every live state of these VMs.
BatchIds == {DefaultVMIds[i] : i \in 1..Len(DefaultVMIds)}
SeqsUpTo(S, n) == UNION {[1..k -> S] : k \in 0..n}

InitBatch ==
    /\ users = {AdminRow}
    /\ assignments = {}
    /\ nextAssignId = 1
    /\ audit = <<>>
    /\ provider = {i \in Identities : i.id \in {"a", "u"}}
    /\ provisioned = {"a"}
    /\ hv \in {h \in [AllVMs -> VMStates] : \A vm \in AllVMs \ BatchIds : h[vm] = HvInit[vm]}
    /\ nreq = 0
    /\ req = [r \in Reqs |-> IdleReq]
    /\ bIds \in SeqsUpTo(BatchIds, MaxLen)
    /\ bOut = NoBatch

BatchList ==
    /\ ~bOut.done
    /\ bOut' = [done |-> TRUE, vms |-> get_all_vms(hv, bIds)]
    /\ UNCHANGED <<store, provider, provisioned, hv, nreq, req, bIds>>

NextBatch == BatchList

SpecBatch == InitBatch /\ [][NextBatch]_vars

\* ===================================================================== claims
Stepped(r) == req'[r] # req[r]
FinishedStart(r) == req[r].pc = "done" /\ req[r].op = "start" /\ req[r].decision = "Allow"
AdapterReturned(r) == req[r].res # NoRes

\* C1: the access decision of start and status is Allow if and only if the
\* resolved user is an admin or a row (user_id, vm_id) is in vm_assignments
\* when the check runs; a denied request ends Forbidden (403), an allowed one
\* goes on to the hypervisor.
C1_AccessDecision ==
    [][\A r \in Reqs :
        (req[r].pc = "authz" /\ Stepped(r)) =>
            LET q == req[r]
                allowed == \/ q.cur.is_admin
                           \/ \E a \in assignments :
                                 a.user_id = q.cur.id /\ a.vm_id = q.vm
            IN /\ req'[r].decision = (IF allowed THEN "Allow" ELSE "Deny")
               /\ allowed => req'[r].pc = "hv_status"
               /\ ~allowed => req'[r].pc = "done" /\ req'[r].resp.code = 403]_vars

\* a user who is no admin was allowed on the assigned VM while another request
\* was denied
C1_Witness ==
    \E r, s \in Reqs :
        /\ req[r].pc = "hv_status" /\ ~req[r].cur.is_admin
        /\ req[r].decision = "Allow"
        /\ req[s].pc = "done" /\ req[s].decision = "Deny" /\ req[s].resp.code = 403

\* C2: vm_assignments holds at most one row per user id, in every reachable
\* state.
C2_OneAssignmentPerUser ==
    \A a, b \in assignments : a.user_id = b.user_id => a = b

\* two assignment creates ran together: one row is stored, the other insert
\* was refused by the store
C2_Witness ==
    \E r, s \in Reqs :
        /\ req[r].pc = "done" /\ req[r].op = "assign" /\ req[r].resp.code = 200
        /\ req[s].pc = "done" /\ req[s].op = "assign" /\ req[s].resp.code = 500
        /\ Cardinality(assignments) = 1

\* C3: an assignment create for a user who already has a row - found by the
\* handler's own check, or only by the store at commit because both requests
\* passed the check - stores nothing and fails with the duplicate-assignment
\* (Conflict) error.
ConflictError == Err(400, "User already has VM assigned")
C3_SecondCreateIsConflict ==
    [][\A r \in Reqs :
        (/\ req[r].op = "assign" /\ req[r].pc \in {"as_existing", "as_insert"}
         /\ AssignmentsOf(req[r].uid) # {}
         /\ Stepped(r))
        => (assignments' = assignments /\ req'[r].resp = ConflictError)]_vars

\* C4: a start attempt that passed authorization invokes the audit recorder
\* exactly once: with the adapter's outcome when the adapter returned, with
\* success=false and the exception's message when it raised.
C4_RecordedExactlyOnce ==
    \A r \in Reqs : FinishedStart(r) =>
        /\ Len(req[r].recorded) = 1
        /\ AdapterReturned(r) => req[r].recorded[1].success = req[r].res.success
        /\ ~AdapterReturned(r) =>
              /\ ~req[r].recorded[1].success
              /\ req[r].recorded[1].error_message = "Failed to start VM"

\* C5: when the audit row of an outcome the adapter returned cannot be stored,
\* the start request still answers with that outcome.
C5_AuditFailureKeepsResponse ==
    \A r \in Reqs :
        (/\ FinishedStart(r) /\ AdapterReturned(r)
         /\ Len(req[r].recorded) >= 1 /\ ~req[r].recorded[1].persisted)
        => /\ req[r].resp.code = 200
           /\ req[r].resp.success = req[r].res.success
           /\ req[r].resp.status = req[r].res.status

\* C6: deleting user U leaves no assignment of U, and keeps every audit row
\* of U with user_id NULL and everything else, the email included, as it was;
\* no assignment and no audit row refers to a user without a row.
C6_DeleteUserCascade ==
    /\ [](/\ \A a \in assignments : UserById(a.user_id) # {}
          /\ \A i \in 1..Len(audit) :
                audit[i].user_id = NULL \/ UserById(audit[i].user_id) # {})
    /\ [][\A r \in Reqs :
            (req[r].pc = "du_delete" /\ Stepped(r) /\ req'[r].resp.code = 200) =>
                LET uid == req[r].uid IN
                /\ {a \in assignments' : a.user_id = uid} = {}
                /\ Len(audit') = Len(audit)
                /\ \A i \in 1..Len(audit) :
                      audit'[i] = IF audit[i].user_id = uid
                                  THEN [audit[i] EXCEPT !.user_id = NULL]
                                  ELSE audit[i]]_vars

\* the user who started a VM was deleted: the audit row is there, without the
\* user id and with the email
C6_Witness ==
    /\ UserById("u") = {}
    /\ \E i \in 1..Len(audit) :
          audit[i].user_id = NULL /\ audit[i].user_email = "u@x"

\* C7: an authorized start on a VM read as running answers success=false and
\* state running without raising, sends no start command, and writes exactly
\* one audit row, with success=false.
C7_StartOnRunning ==
    \A r \in Reqs : (FinishedStart(r) /\ req[r].res = AlreadyRunning) =>
        /\ req[r].resp.code = 200
        /\ ~req[r].resp.success /\ req[r].resp.status = "running"
        /\ ~req[r].posted
        /\ Len(req[r].recorded) = 1
        /\ req[r].recorded[1].persisted /\ ~req[r].recorded[1].success

\* C8: an authorized start on a VM read as stopped sends the start command,
\* answers success=true and state starting, and writes exactly one audit row,
\* with success=true.
C8_StartOnStopped ==
    /\ [](\A r \in Reqs : (FinishedStart(r) /\ req[r].res = StartSent) =>
            /\ req[r].resp.code = 200
            /\ req[r].resp.success /\ req[r].resp.status = "starting"
            /\ req[r].posted
            /\ Len(req[r].recorded) = 1
            /\ req[r].recorded[1].persisted /\ req[r].recorded[1].success)
    /\ [][\A r \in Reqs :
            (/\ req[r].pc = "hv_status" /\ req[r].op = "start"
             /\ Stepped(r) /\ req'[r].seen = "stopped")
            => req'[r].pc = "hv_post"]_vars

\* C9: a user who is no admin and whose assignment names a vm_id that is not
\* in the hypervisor listing gets the assigned-VM-missing error, never a list.
AssignedVMMissing == "Failed to fetch VMs: 404: Assigned VM not found in Proxmox"
C9_AssignedVMMissing ==
    [][\A r \in Reqs :
        (/\ req[r].pc = "list_db" /\ Stepped(r)
         /\ ~req[r].cur.is_admin
         /\ \E a \in assignments :
               /\ a.user_id = req[r].cur.id
               /\ \A i \in 1..Len(req[r].listing) : req[r].listing[i].vm_id # a.vm_id)
        => /\ req'[r].pc = "done"
           /\ req'[r].resp.code >= 400
           /\ req'[r].resp.detail = AssignedVMMissing
           /\ req'[r].resp.vms = <<>>]_vars

C9_Witness ==
    \E r \in Reqs :
        /\ req[r].pc = "done" /\ req[r].op = "list"
        /\ req[r].resp.detail = AssignedVMMissing
        /\ \E a \in assignments : a.vm_id \notin BatchIds

\* C10: batch listing returns one entry per requested id, in request order: a
\* failing id with state unknown and an error string, any other id with its
\* live state and no error.
C10_BatchPartialFailure ==
    bOut.done =>
        /\ Len(bOut.vms) = Len(bIds)
        /\ \A i \in 1..Len(bIds) :
              /\ bOut.vms[i].vm_id = bIds[i]
              /\ IF hv[bIds[i]] = "absent"
                 THEN bOut.vms[i].status = "unknown" /\ bOut.vms[i].error # "-"
                 ELSE bOut.vms[i].status = hv[bIds[i]] /\ bOut.vms[i].error = "-"

\* four ids, one of them failing: four entries, one unknown
C10_Witness ==
    /\ bOut.done /\ bIds = DefaultVMIds
    /\ Cardinality({i \in 1..Len(bOut.vms) : bOut.vms[i].status = "unknown"}) = 1
    /\ Len(bOut.vms) = 4

\* a step that begins a request in slot r
Begun(r) == Free(r) /\ Stepped(r)
UserOfToken(tok) == {u \in users : u.id = tok}

\* C11: a successful user create stores the row with the requested email and
\* admin flag and answers with it; the admin user listing returns exactly the
\* rows of users, so it shows that row as created; a successful user delete
\* removes the row, so a listing made afterwards does not contain it.
C11_CreateListDelete ==
    /\ [][\A r \in Reqs :
            (req[r].pc = "cu_insert" /\ Stepped(r) /\ req'[r].resp.code = 200) =>
                LET row == [id |-> req[r].uid, email |-> EmailOf(req[r].uid),
                            is_admin |-> req[r].adm]
                IN row \in users' /\ req'[r].resp.users = {row}]_vars
    /\ [][\A r \in Reqs :
            (req[r].pc = "lu_select" /\ Stepped(r)) =>
                /\ req'[r].resp.code = 200
                /\ req'[r].resp.users = users
                /\ \A s \in Reqs :
                      (/\ req[s].op = "create_user" /\ req[s].pc = "done"
                       /\ req[s].resp.code = 200 /\ req[s].resp.users \subseteq users)
                      => req[s].resp.users \subseteq req'[r].resp.users]_vars
    /\ [][\A r \in Reqs :
            (req[r].pc = "du_delete" /\ Stepped(r) /\ req'[r].resp.code = 200) =>
                \A u \in users' : u.id # req[r].uid]_vars
    /\ [](\A r \in Reqs :
            (req[r].op = "list_users" /\ req[r].pc = "done") =>
                \A u, v \in req[r].resp.users : u.id = v.id => u = v)

\* identity n was created as an admin and a listing made afterwards shows it so
C11_Witness ==
    \E r, s \in Reqs :
        /\ req[r].op = "create_user" /\ req[r].pc = "done" /\ req[r].resp.code = 200
        /\ req[s].op = "list_users" /\ req[s].pc = "done"
        /\ [id |-> "n", email |-> "n@x", is_admin |-> TRUE] \in req[r].resp.users
        /\ [id |-> "n", email |-> "n@x", is_admin |-> TRUE] \in req[s].resp.users

\* C12: assignment create fails with UserNotFound when its user select finds
\* no row, otherwise with AlreadyAssigned when its assignment select finds a row
\* of the user, otherwise with VMNotFound when the hypervisor's status query
\* for the VM fails; none of these failures changes vm_assignments.
UserNotFound == Err(404, "User not found")
VMNotFound == Err(404, "VM not found in Proxmox")
C12_AssignFailures ==
    [][\A r \in Reqs : (req[r].op = "assign" /\ Stepped(r)) =>
        /\ req[r].pc = "as_user" =>
              IF UserById(req[r].uid) = {}
              THEN req'[r].resp = UserNotFound /\ assignments' = assignments
              ELSE req'[r].pc = "as_existing"
        /\ req[r].pc = "as_existing" =>
              IF AssignmentsOf(req[r].uid) # {}
              THEN req'[r].resp = ConflictError /\ assignments' = assignments
              ELSE req'[r].pc = "as_vm"
        /\ req[r].pc = "as_vm" =>
              IF req'[r].seen = "absent"
              THEN req'[r].resp = VMNotFound /\ assignments' = assignments
              ELSE req'[r].pc = "as_insert"]_vars

\* the three failures have happened, and no row was stored by them
C12_Witness ==
    \E r, s \in Reqs :
        /\ req[r].pc = "done" /\ req[r].op = "assign" /\ req[r].resp = VMNotFound
        /\ req[s].pc = "done" /\ req[s].op = "assign"
        /\ req[s].resp \in {UserNotFound, ConflictError}
        /\ nextAssignId = Cardinality(assignments) + 1

\* C13: an admin operation begun with the token of a user who is no admin is
\* answered Forbidden (403) at once, with users, vm_assignments and the
\* identity provider unchanged; no step of an admin operation runs for a user
\* who was no admin when the request began.
Forbidden == Err(403, "Admin privileges required")
C13_AdminOnly ==
    /\ [][\A r \in Reqs :
            (/\ Begun(r) /\ req'[r].op \in AdminOps
             /\ \E u \in UserOfToken(req'[r].tok) : ~u.is_admin)
            => /\ req'[r].pc = "done" /\ req'[r].resp = Forbidden
               /\ users' = users /\ assignments' = assignments
               /\ provider' = provider]_vars
    /\ [](\A r \in Reqs :
            (req[r].op \in AdminOps /\ req[r].pc \notin {"idle", "done"})
            => req[r].cur.is_admin)

\* user u was refused the delete of the admin's row, which is still there
C13_Witness ==
    \E r \in Reqs :
        /\ req[r].pc = "done" /\ req[r].op = "delete_user"
        /\ req[r].tok = "u" /\ req[r].resp = Forbidden
        /\ UserById("u") # {} /\ UserById("a") # {}

\* C14: resolving a bearer token leaves users unchanged, and a token that
\* verifies but whose subject has no row in users is answered with the
\* user-not-found error, whatever the request.
NotProvisioned == Err(404, "User not found in database")
C14_TokenResolution ==
    [][\A r \in Reqs : (Begun(r) /\ req'[r].op # "login") =>
        /\ users' = users
        /\ UserOfToken(req'[r].tok) = {} =>
              req'[r].pc = "done" /\ req'[r].resp = NotProvisioned]_vars

\* the token of the deleted user u is refused
C14_Witness ==
    \E s \in Reqs :
        /\ req[s].pc = "done" /\ req[s].op = "start"
        /\ req[s].tok = "u" /\ req[s].resp = NotProvisioned
        /\ "u" \in provisioned /\ UserById("u") = {}

\* C15: a login that succeeds by inserting adds exactly one row, the
\* identity's row with is_admin false; a login that finds the identity's row
\* succeeds with that row and leaves users unchanged; a login that does not
\* succeed (rejected by the provider, transport failure, refused insert)
\* leaves users unchanged.
C15_LoginProvisioning ==
    [][\A r \in Reqs :
        /\ (req[r].pc = "login_insert" /\ Stepped(r) /\ req'[r].resp.code = 200) =>
              LET row == [id |-> req[r].uid, email |-> EmailOf(req[r].uid),
                          is_admin |-> FALSE]
              IN /\ UserById(req[r].uid) = {}
                 /\ users' = users \cup {row}
                 /\ req'[r].resp.users = {row}
        /\ (req[r].pc = "login_select" /\ Stepped(r) /\ UserById(req[r].uid) # {}) =>
              /\ users' = users
              /\ req'[r].resp.code = 200
              /\ req'[r].resp.users = UserById(req[r].uid)
        /\ (Stepped(r) /\ req'[r].op = "login" /\ req'[r].resp.code # 200) =>
              users' = users
        /\ (Begun(r) /\ req'[r].op = "login" /\ req'[r].pc = "done") =>
              req'[r].resp.code \in {401, 503}]_vars

\* u logged in for the first time, twice at once: one login inserted the row,
\* with is_admin false
C15_Witness ==
    \E r, s \in Reqs :
        /\ req[r].pc = "done" /\ req[r].op = "login" /\ req[r].resp.code = 200
        /\ req[r].resp.users = {[id |-> "u", email |-> "u@x", is_admin |-> FALSE]}
        /\ req[s].pc = "done" /\ req[s].op = "login" /\ req[s].resp.code = 500

\* C16: a start request that has read its VM as not running sends the start
\* command whatever the other requests in flight have done - the command goes
\* out unless the hypervisor itself refuses it - so two starts of different
\* actors on one VM are both forwarded.
C16_BothForwarded ==
    /\ [][\A r \in Reqs :
            (req[r].pc = "hv_post" /\ Stepped(r)) =>
                \/ req'[r].posted /\ req'[r].res = StartSent /\ req'[r].pc = "audit"
                \/ ~req'[r].posted /\ req'[r].exc = "Failed to start VM"]_vars
    /\ [](\A r \in Reqs :
            (req[r].pc = "hv_post" /\ \E s \in Reqs \ {r} : req[s].posted)
            => ENABLED (StartPost(r) /\ req'[r].posted))

\* admin a and user u have both sent a start command for VM 101
C16_Witness ==
    \E r, s \in Reqs :
        /\ req[r].pc = "audit" /\ req[r].posted /\ req[r].cur.id = "a"
        /\ req[s].pc = "audit" /\ req[s].posted /\ req[s].cur.id = "u"
        /\ req[r].vm = 101 /\ req[s].vm = 101

\* C17 as stated: no step deletes an audit row or changes any field of one.
C17_AppendOnly ==
    [][/\ Len(audit') >= Len(audit)
       /\ \A i \in 1..Len(audit) : audit'[i] = audit[i]]_vars

\* C17: no step deletes an audit row, and the only change to a written row is
\* that the delete of its user sets the row's user_id to NULL; the email, the
\* action, the VM, the success flag and the message stay as written.
C17_AppendOnlyButUserId ==
    [][/\ Len(audit') >= Len(audit)
       /\ \A i \in 1..Len(audit) :
             \/ audit'[i] = audit[i]
             \/ /\ audit'[i] = [audit[i] EXCEPT !.user_id = NULL]
                /\ UserById(audit[i].user_id) # {}
                /\ \A u \in users' : u.id # audit[i].user_id]_vars

\* the row of a start that succeeded has outlived its user
C17_Witness ==
    \E i \in 1..Len(audit) :
        /\ audit[i].user_id = NULL /\ audit[i].success
        /\ audit[i].user_email = "u@x" /\ audit[i].vm_id = 101

\* C18: only the user side of an assignment is unique: the create passes its
\* check and stores its row whenever the user has no row yet, also when the VM
\* is assigned to another user.
C18_UniqueOnUserOnly ==
    [][\A r \in Reqs : (req[r].op = "assign" /\ Stepped(r)) =>
        /\ (req[r].pc = "as_existing" /\ AssignmentsOf(req[r].uid) = {}) =>
              req'[r].pc = "as_vm"
        /\ (/\ req[r].pc = "as_insert" /\ AssignmentsOf(req[r].uid) = {}
            /\ UserById(req[r].uid) # {}) =>
              /\ req'[r].resp.code = 200
              /\ \E a \in assignments' \ assignments :
                    a.user_id = req[r].uid /\ a.vm_id = req[r].vm]_vars

\* two users are assigned VM 101
C18_Witness ==
    \E a, b \in assignments :
        a.user_id # b.user_id /\ a.vm_id = 101 /\ b.vm_id = 101

\* C19 as stated: a row of X is in users if and only if X has logged in or
\* been created at least once.
C19_RowIffProvisioned ==
    \A x \in Ids : UserById(x) # {} <=> x \in provisioned

\* C19: a row of X is in users only if X has logged in or been created at
\* least once; an identity that logs in or is created has a row from then on,
\* and the row goes away by nothing but a delete of user X.
C19_RowOnlyIfProvisioned ==
    /\ [](\A u \in users : u.id \in provisioned)
    /\ [][\A x \in provisioned' \ provisioned : \E u \in users' : u.id = x]_vars
    /\ [][\A u \in users :
            (\A v \in users' : v.id # u.id) =>
                \E r \in Reqs : /\ req[r].pc = "du_delete" /\ req[r].uid = u.id
                                  /\ Stepped(r) /\ req'[r].resp.code = 200]_vars

\* n was created by the admin, u has logged in before and was deleted
C19_Witness ==
    /\ UserById("n") # {} /\ "n" \in provisioned
    /\ UserById("u") = {} /\ "u" \in provisioned

\* C20: a start request denied by the permission check ends there: no status
\* query, no start command, no invocation of the audit recorder, and the
\* denying step leaves the audit log and the hypervisor as they were.
C20_DeniedStartNoEffect ==
    /\ [](\A r \in Reqs :
            (req[r].op = "start" /\ req[r].decision = "Deny") =>
                /\ req[r].pc = "done" /\ req[r].resp.code = 403
                /\ req[r].seen = "-" /\ ~req[r].posted
                /\ req[r].res = NoRes /\ req[r].recorded = <<>>)
    /\ [][\A r \in Reqs :
            (req[r].op = "start" /\ req[r].pc = "authz" /\ Stepped(r)
             /\ req'[r].decision = "Deny")
            => audit' = audit /\ hv' = hv /\ assignments' = assignments]_vars

\* user u was denied the start of VM 100, and nothing was recorded
C20_Witness ==
    \E r \in Reqs :
        /\ req[r].pc = "done" /\ req[r].op = "start" /\ req[r].tok = "u"
        /\ req[r].decision = "Deny" /\ audit = <<>>

\* C21 as stated: when a start command is sent for a user who is no admin
\* (and whose row is still in users), a row (user, VM) is in vm_assignments at
\* that moment.
C21_AssignedWhenForwarded ==
    [][\A r \in Reqs :
        (/\ req[r].pc = "hv_post" /\ Stepped(r) /\ req'[r].posted
         /\ ~req[r].cur.is_admin /\ UserById(req[r].cur.id) # {})
        => AssignmentFor(req[r].cur.id, req[r].vm) # {}]_vars

\* C21: a start command is sent for a user who is no admin only by a request
\* whose permission check found a row (user, VM) in vm_assignments when it
\* ran; the row may have been deleted by the time the command is sent.
C21_AssignedWhenChecked ==
    /\ [][\A r \in Reqs :
            (/\ req[r].pc = "authz" /\ req[r].op = "start" /\ Stepped(r)
             /\ ~req[r].cur.is_admin /\ req'[r].pc # "done")
            => AssignmentFor(req[r].cur.id, req[r].vm) # {}]_vars
    /\ [][\A r \in Reqs :
            (~req[r].posted /\ req'[r].posted)
            => /\ req[r].pc = "hv_post" /\ req[r].op = "start"
               /\ req[r].decision = "Allow"]_vars
    /\ [](\A r \in Reqs :
            req[r].pc \in {"hv_status", "hv_post"} => req[r].decision = "Allow")

\* the start command of user u has gone out after the assignment of u was
\* deleted
C21_Witness ==
    \E r \in Reqs :
        /\ req[r].pc = "audit" /\ req[r].posted
        /\ req[r].cur.id = "u" /\ req[r].decision = "Allow"
        /\ AssignmentsOf("u") = {} /\ UserById("u") # {}

\* C22: a first login that found no row at its select, while another login of
\* the same identity has found none either (it is about to insert, or has
\* inserted since), succeeds, and one row of the identity exists afterwards.
C22_ConcurrentFirstLogins ==
    [][\A r \in Reqs :
        (/\ req[r].pc = "login_insert" /\ Stepped(r)
         /\ \E s \in Reqs \ {r} :
               /\ req[s].op = "login"
               /\ \/ req[s].pc = "login_insert" /\ req[s].uid = req[r].uid
                  \/ /\ req[s].pc = "done" /\ req[s].resp.code = 200
                     /\ \E u \in req[s].resp.users : u.id = req[r].uid)
        => /\ req'[r].resp.code = 200
           /\ Cardinality({u \in users' : u.id = req[r].uid}) = 1]_vars

\* C23: a start request that passed the permission check and whose user has
\* no row any more when it ends has stored exactly one audit row, with the
\* user's email and the outcome the adapter returned.
C23_AuditRowSurvivesActorDelete ==
    \A r \in Reqs :
        (FinishedStart(r) /\ UserById(req[r].tok) = {}) =>
            /\ Cardinality({i \in 1..Len(req[r].recorded) :
                               req[r].recorded[i].persisted}) = 1
            /\ \E i \in 1..Len(audit) :
                  /\ audit[i].user_email = EmailOf(req[r].tok)
                  /\ AdapterReturned(r) => audit[i].success = req[r].res.success

====
